---- MODULE Spec2Model ----
(***************************************************************************)
(* The betting state machine and the payout computation of src/src/game.rs *)
(* (GameInfo, GameState::new, is_valid_action, apply_action_no_cards,      *)
(* get_payout).                                                            *)
(*                                                                         *)
(* Conventions.                                                            *)
(*  - Rust Vec / array indices are 0-based; a Vec of the ruleset is        *)
(*    written as a tuple and read with At(v, i) == v[i + 1].  The arrays  *)
(*    of GameState are functions on 0 .. num_players - 1 (the code never   *)
(*    reads a seat >= num_players) and on 0 .. num_rounds - 1.             *)
(*  - A u32 is held as the integer with the same 32-bit pattern read as    *)
(*    two's complement: v < 2^31 is held as v, v >= 2^31 as v - 2^32.      *)
(*    Wrapping subtraction is then plain subtraction (all magnitudes here  *)
(*    stay far below 2^31) and the unsigned order is U32Lt.                *)
(*  - u32 overflow panics in a build with overflow checks (debug) and      *)
(*    wraps otherwise (release); apply_action_no_cards takes the build's   *)
(*    setting as a parameter and Next chooses it freely.                   *)
(***************************************************************************)
EXTENDS Integers, Sequences, FiniteSets, TLC

\* ------------------------------------------------------------------ bounds

\* Raise(r) inputs tried in every state: r \in 0 .. MaxRaiseTo, plus the two
\* ends of the state's raise range.
MaxRaiseTo == 6

\* One more Raise(r) input tried in every state: the raise to 10 of the
\* three-player scenario.
ScenarioRaiseTo == 10

\* Rank classes are 0 .. MaxRankClass; 0 is EvalClass::HighCard{Two}, the
\* least class, which get_payout uses as the initial win_rank.
MaxRankClass == 2

\* --------------------------------------------------------------- constants

MAX_NUM_ACTIONS == 32

\* ----------------------------------------------------------------- helpers

At(v, i) == v[i + 1]

\* a < b as u32 values (see the conventions above)
U32Lt(a, b) == IF (a >= 0) = (b >= 0) THEN a < b ELSE a >= 0

U32Le(a, b) == a = b \/ U32Lt(a, b)

RECURSIVE SumUpTo(_, _)
SumUpTo(f, n) == IF n < 0 THEN 0 ELSE f[n] + SumUpTo(f, n - 1)

RECURSIVE MaxOfSeq(_, _)
MaxOfSeq(v, acc) ==
    IF v = <<>> THEN acc
    ELSE MaxOfSeq(Tail(v), IF Head(v) > acc THEN Head(v) ELSE acc)

\* ------------------------------------------------------------------ Action

Fold == [type |-> "Fold", amount |-> 0]

Call == [type |-> "Call", amount |-> 0]

Raise(r) == [type |-> "Raise", amount |-> r]

\* ---------------------------------------------------------------- GameInfo

\* Heads-up no-limit, blinds [1,2], stacks [100,100] (the scenario of the
\* specification), two rounds.
HeadsUpNoLimit ==
    [betting_type |-> "NoLimit", num_players |-> 2, num_rounds |-> 2,
     starting_stacks |-> <<100, 100>>, blinds |-> <<1, 2>>,
     raise_sizes |-> <<0, 0>>, max_raises |-> <<1, 1>>,
     first_player |-> <<0, 1>>]

\* Three players, no-limit, one short stack: side pots.  Raises and
\* re-raises in round 0, none in round 1.
SidePotNoLimit ==
    [betting_type |-> "NoLimit", num_players |-> 3, num_rounds |-> 2,
     starting_stacks |-> <<5, 20, 20>>, blinds |-> <<1, 2, 0>>,
     raise_sizes |-> <<0, 0>>, max_raises |-> <<2, 0>>,
     first_player |-> <<2, 0>>]

\* Three players, limit, one short stack.
ShortStackLimit ==
    [betting_type |-> "Limit", num_players |-> 3, num_rounds |-> 2,
     starting_stacks |-> <<3, 10, 10>>, blinds |-> <<1, 2, 0>>,
     raise_sizes |-> <<2, 2>>, max_raises |-> <<2, 2>>,
     first_player |-> <<2, 0>>]

\* Heads-up limit with a raise cap above MAX_NUM_ACTIONS.
DeepLimit ==
    [betting_type |-> "Limit", num_players |-> 2, num_rounds |-> 1,
     starting_stacks |-> <<40, 40>>, blinds |-> <<1, 2>>,
     raise_sizes |-> <<1>>, max_raises |-> <<40>>,
     first_player |-> <<0>>]

\* Heads-up no-limit with a raise cap above MAX_NUM_ACTIONS.
DeepNoLimit ==
    [betting_type |-> "NoLimit", num_players |-> 2, num_rounds |-> 1,
     starting_stacks |-> <<400, 400>>, blinds |-> <<10, 10>>,
     raise_sizes |-> <<0>>, max_raises |-> <<40>>,
     first_player |-> <<0>>]

\* Heads-up no-limit where posting the small blind puts the first player
\* to act all-in.
ShortBlindNoLimit ==
    [betting_type |-> "NoLimit", num_players |-> 2, num_rounds |-> 2,
     starting_stacks |-> <<1, 10>>, blinds |-> <<1, 2>>,
     raise_sizes |-> <<0, 0>>, max_raises |-> <<1, 1>>,
     first_player |-> <<0, 1>>]

\* Heads-up no-limit without blinds.
NoBlindsNoLimit ==
    [betting_type |-> "NoLimit", num_players |-> 2, num_rounds |-> 2,
     starting_stacks |-> <<3, 3>>, blinds |-> <<0, 0>>,
     raise_sizes |-> <<0, 0>>, max_raises |-> <<2, 1>>,
     first_player |-> <<0, 0>>]

GameInfos ==
    {HeadsUpNoLimit, SidePotNoLimit, ShortStackLimit, DeepLimit, DeepNoLimit,
     ShortBlindNoLimit, NoBlindsNoLimit}

Players(gi) == 0 .. gi.num_players - 1

Rounds(gi) == 0 .. gi.num_rounds - 1

\* --------------------------------------------------------------- GameState

new(gi) ==
    LET max_blind == MaxOfSeq(gi.blinds, 0)
    IN [max_spent |-> max_blind,
        min_no_limit_raise_to |->
            IF gi.betting_type = "NoLimit"
            THEN (IF max_blind > 0 THEN max_blind * 2 ELSE 1)
            ELSE 0,
        spent |-> [p \in Players(gi) |-> At(gi.blinds, p)],
        stack_player |-> [p \in Players(gi) |-> At(gi.starting_stacks, p)],
        sum_round_spent |->
            [r \in Rounds(gi) |->
                [p \in Players(gi) |-> IF r = 0 THEN At(gi.blinds, p) ELSE 0]],
        action |-> [r \in Rounds(gi) |-> <<>>],
        acting_player |-> [r \in Rounds(gi) |-> <<>>],
        active_player |-> At(gi.first_player, 0),
        num_actions |-> [r \in Rounds(gi) |-> 0],
        round |-> 0,
        finished |-> FALSE,
        players_folded |-> [p \in Players(gi) |-> FALSE]]

pot_total(s, gi) == SumUpTo(s.spent, gi.num_players - 1)

has_folded(s, p) == s.players_folded[p]

\* not folded and not all-in
IsActive(s, p) == ~s.players_folded[p] /\ U32Lt(s.spent[p], s.stack_player[p])

num_active_players(s, gi) == Cardinality({p \in Players(gi) : IsActive(s, p)})

num_folded(s, gi) == Cardinality({p \in Players(gi) : has_folded(s, p)})

\* The walk of num_called from action i (0-based) of the current round down.
RECURSIVE NumCalledFrom(_, _, _)
NumCalledFrom(s, i, count) ==
    IF i < 0 THEN count
    ELSE LET a == At(s.action[s.round], i)
             player == At(s.acting_player[s.round], i)
             inc == IF U32Lt(s.spent[player], s.stack_player[player])
                    THEN 1 ELSE 0
         IN IF a.type = "Raise" THEN count + inc
            ELSE IF a.type = "Call" THEN NumCalledFrom(s, i - 1, count + inc)
            ELSE NumCalledFrom(s, i - 1, count)

num_called(s, gi) == NumCalledFrom(s, s.num_actions[s.round] - 1, 0)

\* The loop of next_player and of the round advance: the first seat, from p
\* on in cyclic order, that is neither folded nor all-in; -1 when the loop
\* never ends (no such seat).
RECURSIVE FirstActiveFrom(_, _, _, _)
FirstActiveFrom(s, gi, p, tried) ==
    IF tried >= gi.num_players THEN -1
    ELSE IF IsActive(s, p) THEN p
    ELSE FirstActiveFrom(s, gi, (p + 1) % gi.num_players, tried + 1)

\* Err("state is finished so there is no active player"), as a seat value
NoActivePlayer == -2

\* Ok(seat), NoActivePlayer for the Err of a finished state, -1 when the
\* loop never ends.
next_player(s, gi) ==
    IF s.finished THEN NoActivePlayer
    ELSE FirstActiveFrom(s, gi, (s.active_player + 1) % gi.num_players, 0)

num_raises(s) ==
    Cardinality({i \in 1 .. s.num_actions[s.round] :
                    s.action[s.round][i].type = "Raise"})

\* (min_raise, max_raise)
raise_range(s, gi) ==
    IF s.finished THEN <<0, 0>>
    ELSE IF num_raises(s) >= At(gi.max_raises, s.round) THEN <<0, 0>>
    ELSE IF s.num_actions[s.round] + gi.num_players > MAX_NUM_ACTIONS
    THEN <<0, 0>>
    ELSE IF num_active_players(s, gi) <= 1 THEN <<0, 0>>
    ELSE IF gi.betting_type = "Limit" THEN <<0, 0>>
    ELSE LET stack == s.stack_player[s.active_player]
         IN IF U32Lt(stack, s.min_no_limit_raise_to)
            THEN (IF U32Le(stack, s.max_spent) THEN <<0, 0>>
                  ELSE <<stack, stack>>)
            ELSE <<s.min_no_limit_raise_to, stack>>

\* FoldAllowed without the all-in test.
FoldAlwaysAllowed(s) == TRUE

\* The Fold arm: the active player is not all-in.
FoldAllowed(s) == s.spent[s.active_player] # s.stack_player[s.active_player]

\* RaiseCapReached with the comparison off by one.
RaiseCapExceeded(s, gi) == num_raises(s) > At(gi.max_raises, s.round)

\* The first test of the Raise arm: the round has had all its raises.
RaiseCapReached(s, gi) == num_raises(s) >= At(gi.max_raises, s.round)

\* The match on the action of is_valid_action.
ActionAllowed(s, gi, a) ==
    IF a.type = "Fold" THEN FoldAllowed(s)
    ELSE IF a.type = "Call" THEN TRUE
    ELSE IF RaiseCapReached(s, gi) THEN FALSE
    ELSE IF gi.betting_type = "Limit"
    THEN a.amount = At(gi.raise_sizes, s.round)
    ELSE LET rr == raise_range(s, gi)
         IN U32Le(rr[1], a.amount) /\ U32Le(a.amount, rr[2])

\* is_valid_action without the test of finished.
is_valid_action_unfinished(s, gi, a) == ActionAllowed(s, gi, a)

is_valid_action(s, gi, a) ==
    IF s.finished THEN FALSE ELSE ActionAllowed(s, gi, a)

\* ------------------------------------------------- apply_action_no_cards

\* LogFull with the comparison off by one.
LogFullOffByOne(s) == s.num_actions[s.round] > MAX_NUM_ACTIONS

\* The log of the current round has no room for one more action.
LogFull(s) == s.num_actions[s.round] >= MAX_NUM_ACTIONS

\* Rejection without the call of is_valid_action.
RejectionUnchecked(s, gi, a) ==
    IF s.finished THEN "finished"
    ELSE IF LogFull(s) THEN "max_actions"
    ELSE "none"

\* The three rejections, in the order of the code; "none" when the action
\* is accepted.
Rejection(s, gi, a) ==
    IF s.finished THEN "finished"
    ELSE IF LogFull(s) THEN "max_actions"
    ELSE IF ~is_valid_action(s, gi, a) THEN "invalid"
    ELSE "none"

\* The action and its player appended to the current round's log.
Recorded(s, a, player) ==
    [s EXCEPT !.action[s.round] = Append(@, a),
              !.acting_player[s.round] = Append(@, player),
              !.num_actions[s.round] = @ + 1]

\* CallSpent without the cap at the caller's stack.
CallSpentUncapped(s, player) == s.max_spent

\* What a Call commits: min(stack, max_spent).
CallSpent(s, player) ==
    IF U32Lt(s.stack_player[player], s.max_spent)
    THEN s.stack_player[player]
    ELSE s.max_spent

AfterFold(s, player) == [s EXCEPT !.players_folded[player] = TRUE]

\* AfterCall that writes the round ledger only.
AfterCallLedgerOnly(s, player) ==
    [s EXCEPT !.sum_round_spent[s.round][player] = CallSpent(s, player)]

AfterCall(s, player) ==
    [s EXCEPT !.spent[player] = CallSpent(s, player),
              !.sum_round_spent[s.round][player] = CallSpent(s, player)]

\* r * 2 - max_spent as a u32 (wrapped when 2r < max_spent)
RaiseThreshold(s, r) == r * 2 - s.max_spent

\* r * 2 - max_spent leaves the u32 range
RaiseOverflows(s, gi, a) ==
    /\ a.type = "Raise"
    /\ gi.betting_type = "NoLimit"
    /\ a.amount * 2 < s.max_spent

\* The new max_spent of a Limit raise.
LimitRaiseTo(s, gi, player) ==
    IF s.max_spent + At(gi.raise_sizes, s.round) > s.stack_player[player]
    THEN s.stack_player[player]
    ELSE s.max_spent + At(gi.raise_sizes, s.round)

AfterRaise(s, gi, r, player) ==
    LET m == IF gi.betting_type = "NoLimit" THEN r
             ELSE LimitRaiseTo(s, gi, player)
        t == IF /\ gi.betting_type = "NoLimit"
                /\ U32Lt(s.min_no_limit_raise_to, RaiseThreshold(s, r))
             THEN RaiseThreshold(s, r)
             ELSE s.min_no_limit_raise_to
    IN [s EXCEPT !.min_no_limit_raise_to = t,
                 !.max_spent = m,
                 !.spent[player] = m,
                 !.sum_round_spent[s.round][player] = m]

\* The match on the action (chip effects).
ChipEffects(s, gi, a, player) ==
    IF a.type = "Fold" THEN AfterFold(s, player)
    ELSE IF a.type = "Call" THEN AfterCall(s, player)
    ELSE AfterRaise(s, gi, a.amount, player)

\* RoundStartRaiseTo that keeps the threshold of the round that ended.
RoundStartRaiseToStale(s, gi) == s.min_no_limit_raise_to

\* The threshold a new round starts with: max(1, largest blind) + max_spent.
RoundStartRaiseTo(s, gi) == MaxOfSeq(gi.blinds, 1) + s.max_spent

\* RoundClosed read as "every active player has matched max_spent".
RoundClosedWhenMatched(ns, gi) ==
    \A p \in Players(gi) : IsActive(ns, p) => ns.spent[p] = ns.max_spent

\* The betting round is closed: every active player has called.
RoundClosed(ns, gi) == num_called(ns, gi) >= num_active_players(ns, gi)

NextRound(ns, gi) ==
    LET r == ns.round + 1
    IN [ns EXCEPT !.round = r,
                  !.min_no_limit_raise_to = RoundStartRaiseTo(ns, gi),
                  !.active_player =
                      FirstActiveFrom(ns, gi, At(gi.first_player, r), 0)]

\* OneLeft that waits for every player to fold.
NoneLeft(ns, gi) == num_folded(ns, gi) >= gi.num_players

\* At most one player has not folded.
OneLeft(ns, gi) == num_folded(ns, gi) + 1 >= gi.num_players

\* ShowdownState that leaves the round where the betting stopped.
ShowdownStateSameRound(ns, gi) == [ns EXCEPT !.finished = TRUE]

\* The skip to the showdown: finished, in the last round.
ShowdownState(ns, gi) ==
    [ns EXCEPT !.finished = TRUE, !.round = gi.num_rounds - 1]

\* The terminal / round-advance check on the state after the chip effects.
Advance(ns, gi) ==
    IF OneLeft(ns, gi)
    THEN [ns EXCEPT !.finished = TRUE]
    ELSE IF RoundClosed(ns, gi)
    THEN IF num_active_players(ns, gi) > 1
         THEN IF ns.round + 1 < gi.num_rounds
              THEN NextRound(ns, gi)
              ELSE [ns EXCEPT !.finished = TRUE]
         ELSE ShowdownState(ns, gi)
    ELSE ns

\* The state after the log entry, the chip effects and the move of
\* active_player (computed on the receiver), before the terminal check.
BeforeAdvance(s, gi, a) ==
    [ChipEffects(Recorded(s, a, s.active_player), gi, a, s.active_player)
        EXCEPT !.active_player = next_player(s, gi)]

\* res: "ok" with the new state, or "finished" / "max_actions" / "invalid"
\* (the three Err values), "panic" (arithmetic overflow in a build with
\* overflow checks, or unwrap of the Err of next_player), "hang" (next_player
\* never returns); on all but "ok" no state is produced and state is the
\* receiver.
apply_action_no_cards(s, gi, a, overflow_checks) ==
    IF Rejection(s, gi, a) # "none"
    THEN [res |-> Rejection(s, gi, a), state |-> s]
    ELSE IF overflow_checks /\ RaiseOverflows(s, gi, a)
    THEN [res |-> "panic", state |-> s]
    ELSE IF next_player(s, gi) = -1
    THEN [res |-> "hang", state |-> s]
    ELSE IF next_player(s, gi) = NoActivePlayer
    THEN [res |-> "panic", state |-> s]
    ELSE [res |-> "ok", state |-> Advance(BeforeAdvance(s, gi, a), gi)]

\* -------------------------------------------------------------- get_payout

RankClasses == 0 .. MaxRankClass

\* EvalClass::HighCard { high_rank: Rank::Two }, the initial win_rank
LowestRank == 0

\* Option::None in the rank vector (a folded player)
NoRank == -1

Value(v) == [kind |-> "value", value |-> v]

\* assert! / unwrap / division by zero
Panic == [kind |-> "panic", value |-> 0]

\* The loop never returns: with no player left, size is u32::MAX and value
\* grows by one per iteration (until i32 overflow panics, in a build with
\* overflow checks).
Diverge == [kind |-> "diverge", value |-> 0]

\* The seats with a nonzero spend, in seat order (the players gathered
\* into the rank and spent vectors).
RECURSIVE Gathered(_, _, _)
Gathered(s, gi, i) ==
    IF i >= gi.num_players THEN <<>>
    ELSE IF s.spent[i] = 0 THEN Gathered(s, gi, i + 1)
    ELSE <<i>> \o Gathered(s, gi, i + 1)

\* The index of player in the gathered vectors, -1 when it has none (a
\* folded player gets none either, but get_payout returns before that).
RECURSIVE IndexOf(_, _, _)
IndexOf(seats, player, i) ==
    IF i >= Len(seats) THEN -1
    ELSE IF At(seats, i) = player THEN i
    ELSE IndexOf(seats, player, i + 1)

\* LayerSize taking the largest remaining commitment (the whole pot at once).
LayerSizeLargest(spentv, players_left) ==
    CHOOSE m \in {At(spentv, i) : i \in 0 .. players_left - 1} :
        \A i \in 0 .. players_left - 1 : m >= At(spentv, i)

\* The layer: the least remaining commitment of the first players_left
\* entries.
LayerSize(spentv, players_left) ==
    CHOOSE m \in {At(spentv, i) : i \in 0 .. players_left - 1} :
        \A i \in 0 .. players_left - 1 : m <= At(spentv, i)

\* win_rank over the first players_left entries of the rank vector
WinRank(rankv, players_left) ==
    LET rs == {At(rankv, i) : i \in 0 .. players_left - 1} \cup {LowestRank}
    IN CHOOSE w \in rs : \A r \in rs : r <= w

NumWinners(rankv, players_left) ==
    Cardinality({i \in 0 .. players_left - 1 :
                    At(rankv, i) = WinRank(rankv, players_left)})

\* The spent vector after the layer is taken: the entries that stay
\* nonzero, moved to the front (the rank vector is not moved with them).
RECURSIVE Compacted(_, _, _, _)
Compacted(spentv, players_left, size, i) ==
    IF i >= players_left THEN <<>>
    ELSE IF At(spentv, i) - size = 0
    THEN Compacted(spentv, players_left, size, i + 1)
    ELSE <<At(spentv, i) - size>> \o Compacted(spentv, players_left, size, i + 1)

\* The index of the queried player after the layer is taken
\* (`if i == player_idx { player_idx = i; }`).
NextPlayerIdx(spentv, players_left, size, player_idx) == player_idx

\* The rank vector after the layer is taken (the code does not touch it).
NextRanks(rankv, spentv, players_left, size) == rankv

\* The side-pot loop.
RECURSIVE SidePots(_, _, _, _, _)
SidePots(spentv, rankv, players_left, player_idx, value) ==
    IF players_left = 0
    THEN (IF At(rankv, player_idx) = LowestRank THEN Panic ELSE Diverge)
    ELSE
    LET size == LayerSize(spentv, players_left)
        win_rank == WinRank(rankv, players_left)
        num_winners == NumWinners(rankv, players_left)
        wins == At(rankv, player_idx) = win_rank
        v == IF wins
             THEN value + (size * (players_left - num_winners)) \div num_winners
             ELSE value - size
    IN IF wins /\ num_winners = 0 THEN Panic
       ELSE IF player_idx < players_left /\ At(spentv, player_idx) - size = 0
       THEN Value(v)
       ELSE LET rest == Compacted(spentv, players_left, size, 0)
            IN SidePots(rest, NextRanks(rankv, spentv, players_left, size),
                        Len(rest),
                        NextPlayerIdx(spentv, players_left, size, player_idx),
                        v)

\* FoldedPayout charging the largest commitment of the table.
FoldedPayoutOfMaxSpent(s, player) == Value(0 - s.max_spent)

\* What a folded player is paid: minus their own commitment.
FoldedPayout(s, player) == Value(0 - s.spent[player])

\* SingleNonFolderPayout that pays the whole pot, the winner's own chips
\* included.
SingleNonFolderPayoutOfPot(s, gi, player) == Value(pot_total(s, gi))

\* What the only player who has not folded is paid: the commitments of all
\* other players.
SingleNonFolderPayout(s, gi, player) ==
    Value(pot_total(s, gi) - s.spent[player])

\* get_payout of a player who has not folded, once the hand is known to be
\* finished.  rank_class[p] stands for the EvalClass of player p's hole
\* cards and the board.
FinishedPayout(s, gi, rank_class, player) ==
    IF num_folded(s, gi) + 1 = gi.num_players
    THEN SingleNonFolderPayout(s, gi, player)
    ELSE LET seats == Gathered(s, gi, 0)
             players_left == Len(seats)
             player_idx == IndexOf(seats, player, 0)
             rankv == [k \in 1 .. players_left |->
                          IF has_folded(s, seats[k]) THEN NoRank
                          ELSE rank_class[seats[k]]]
             spentv == [k \in 1 .. players_left |-> s.spent[seats[k]]]
         IN IF ~(players_left > 1) THEN Panic
            ELSE IF ~(player_idx > -1) THEN Panic
            ELSE SidePots(spentv, rankv, players_left, player_idx, 0)

\* get_payout without the test of finished.
get_payout_any_time(s, gi, rank_class, player) ==
    IF has_folded(s, player) THEN FoldedPayout(s, player)
    ELSE FinishedPayout(s, gi, rank_class, player)

get_payout(s, gi, rank_class, player) ==
    IF has_folded(s, player) THEN FoldedPayout(s, player)
    ELSE IF ~s.finished THEN Panic
    ELSE FinishedPayout(s, gi, rank_class, player)

\* ------------------------------------------------------------------- state

VARIABLES
    game_info,              \* the ruleset of the hand
    max_spent, min_no_limit_raise_to, spent, stack_player, sum_round_spent,
    action, acting_player, active_player, num_actions, round, finished,
    players_folded,         \* the fields of GameState
    result,                 \* what the last apply_action_no_cards returned
    hole_rank,              \* the rank classes of the last payout request
    payout                  \* get_payout of every player at that request

game == <<max_spent, min_no_limit_raise_to, spent, stack_player,
          sum_round_spent, action, acting_player, active_player, num_actions,
          round, finished, players_folded>>

vars == <<game_info, game, result, hole_rank, payout>>

\* The GameState held in the variables.
GS ==
    [max_spent |-> max_spent,
     min_no_limit_raise_to |-> min_no_limit_raise_to,
     spent |-> spent,
     stack_player |-> stack_player,
     sum_round_spent |-> sum_round_spent,
     action |-> action,
     acting_player |-> acting_player,
     active_player |-> active_player,
     num_actions |-> num_actions,
     round |-> round,
     finished |-> finished,
     players_folded |-> players_folded]

StateBecomes(s) ==
    /\ max_spent' = s.max_spent
    /\ min_no_limit_raise_to' = s.min_no_limit_raise_to
    /\ spent' = s.spent
    /\ stack_player' = s.stack_player
    /\ sum_round_spent' = s.sum_round_spent
    /\ action' = s.action
    /\ acting_player' = s.acting_player
    /\ active_player' = s.active_player
    /\ num_actions' = s.num_actions
    /\ round' = s.round
    /\ finished' = s.finished
    /\ players_folded' = s.players_folded

NoRanks(gi) == [p \in Players(gi) |-> NoRank]

NoPayout(gi) == [p \in Players(gi) |-> [kind |-> "none", value |-> 0]]

\* The actions a caller proposes in state s: Fold, Call, Raise(r) for every
\* r up to MaxRaiseTo, for ScenarioRaiseTo and for the two ends of the raise
\* range.
ActionInputs(s, gi) ==
    {Fold, Call}
        \cup {Raise(r) : r \in (0 .. MaxRaiseTo)
                              \cup {ScenarioRaiseTo}
                              \cup {raise_range(s, gi)[1], raise_range(s, gi)[2]}}

Init ==
    \E gi \in GameInfos :
        /\ game_info = gi
        /\ max_spent = new(gi).max_spent
        /\ min_no_limit_raise_to = new(gi).min_no_limit_raise_to
        /\ spent = new(gi).spent
        /\ stack_player = new(gi).stack_player
        /\ sum_round_spent = new(gi).sum_round_spent
        /\ action = new(gi).action
        /\ acting_player = new(gi).acting_player
        /\ active_player = new(gi).active_player
        /\ num_actions = new(gi).num_actions
        /\ round = new(gi).round
        /\ finished = new(gi).finished
        /\ players_folded = new(gi).players_folded
        /\ result = "none"
        /\ hole_rank = NoRanks(gi)
        /\ payout = NoPayout(gi)

\* No payout has been requested yet.  get_payout changes nothing in
\* GameState, so every state of the hand is explored before a request and
\* nothing is explored after one.
NotPaid == payout = NoPayout(game_info)

\* A call of apply_action_no_cards: the hand moves to the returned state, or
\* stays where it is when the call fails.
ApplyAction(a, overflow_checks) ==
    LET r == apply_action_no_cards(GS, game_info, a, overflow_checks)
    IN /\ NotPaid
       /\ StateBecomes(r.state)
       /\ result' = r.res
       /\ UNCHANGED <<game_info, hole_rank, payout>>

\* The driver asks get_payout for every player, with the rank classes rk of
\* the dealt cards.
GetPayouts(rk) ==
    /\ NotPaid
    /\ payout' = [p \in Players(game_info) |-> get_payout(GS, game_info, rk, p)]
    /\ hole_rank' = rk
    /\ UNCHANGED <<game_info, game, result>>

Next ==
    \/ \E a \in ActionInputs(GS, game_info), oc \in BOOLEAN : ApplyAction(a, oc)
    \/ \E rk \in [Players(game_info) -> RankClasses] : GetPayouts(rk)

Spec == Init /\ [][Next]_vars

\* ------------------------------------------------------------ observations

\* get_payout has been requested in this state.
Paid == payout # NoPayout(game_info)

AllReturn == \A p \in Players(game_info) : payout[p].kind = "value"

PayoutSum ==
    SumUpTo([p \in Players(game_info) |-> payout[p].value],
            game_info.num_players - 1)

NotFolded == {p \in Players(game_info) : ~players_folded[p]}

\* The step is an accepted action: apply_action_no_cards returned a state,
\* which holds one more entry in the log of the round it was applied in.
Accepted == num_actions'[round] = num_actions[round] + 1

\* The action of an Accepted step and the player who made it.
LastAction == action'[round][num_actions'[round]]

SumRoundSpent(p) ==
    SumUpTo([r \in Rounds(game_info) |-> sum_round_spent[r][p]],
            game_info.num_rounds - 1)

LargestSpent ==
    CHOOSE m \in {spent[p] : p \in Players(game_info)} :
        \A p \in Players(game_info) : spent[p] <= m

\* ------------------------------------------------------------------ claims

\* C1 (as claimed; refuted by the code).  Chip conservation: in every
\* finished state, whatever the folds, the side pots and the rank classes,
\* get_payout returns a value for every player and the values sum to zero.
C1_ChipConservation ==
    (finished /\ Paid) => (AllReturn /\ PayoutSum = 0)

\* C2 (as claimed; refuted by the code).  Whenever an accepted action leaves
\* at least two players active and every active player's spent equal to
\* max_spent, the round index grows by one if a later round exists and the
\* hand is finished if the action was taken in the last round.
C2_AdvanceWhenMatched ==
    [][(/\ Accepted
        /\ num_active_players(GS', game_info) >= 2
        /\ \A p \in Players(game_info) :
               IsActive(GS', p) => spent'[p] = max_spent')
       => IF round + 1 < game_info.num_rounds
          THEN round' = round + 1
          ELSE finished']_vars

\* C2 (amended).  Whenever an accepted action leaves at least two players
\* active and closes the betting round (the calls counted back to the
\* round's last raise are at least as many as the active players), the round
\* index grows by one if a later round exists and the hand is finished if
\* the action was taken in the last round; an accepted action that does not
\* close the round, and leaves at least two players unfolded, leaves the
\* round index and finished alone.  In heads-up no-limit with blinds [1,2]
\* and stacks [100,100], player 0's opening Call yields spent = [2,2] in
\* round 0 with player 1 to act, and player 1's Call then yields round 1.
C2_AdvanceWhenRoundClosed ==
    [][Accepted =>
        LET mid == BeforeAdvance(GS, game_info, LastAction)
            closed == num_called(mid, game_info)
                          >= num_active_players(mid, game_info)
        IN /\ (num_active_players(GS', game_info) >= 2 /\ closed)
               => IF round + 1 < game_info.num_rounds
                  THEN round' = round + 1 /\ ~finished'
                  ELSE round' = round /\ finished'
           /\ (Cardinality(NotFolded') >= 2 /\ ~closed)
               => (round' = round /\ ~finished')
           /\ (game_info = HeadsUpNoLimit /\ GS = new(game_info) /\ LastAction = Call)
               => (/\ spent' = [p \in 0 .. 1 |-> 2]
                   /\ round' = 0 /\ ~finished' /\ active_player' = 1)
           /\ (/\ game_info = HeadsUpNoLimit /\ round = 0 /\ num_actions[0] = 1
               /\ action[0][1] = Call /\ LastAction = Call)
               => (round' = 1 /\ spent' = [p \in 0 .. 1 |-> 2])]_vars

\* C2 witness: the heads-up hand after Call, Call: both players matched at 2
\* and the hand in round 1.
C2_Witness ==
    /\ game_info = HeadsUpNoLimit
    /\ round = 1
    /\ action[0] = <<Call, Call>>
    /\ spent = [p \in 0 .. 1 |-> 2]

\* C3.  In every state reached by accepted actions, under Limit and NoLimit
\* alike, no player has spent more than their stack.
C3_SpentWithinStack ==
    \A p \in Players(game_info) : U32Le(spent[p], stack_player[p])

\* C3 witness: a player went all-in by calling a bet larger than their
\* stack.
C3_Witness ==
    \E p \in Players(game_info) :
        /\ spent[p] = stack_player[p]
        /\ max_spent > stack_player[p]
        /\ \E r \in Rounds(game_info) :
               \E i \in 1 .. num_actions[r] :
                   action[r][i] = Call /\ acting_player[r][i] = p

\* C4 (as claimed; refuted by the code).  For every player, spent is at
\* least the sum over all rounds of sum_round_spent.
C4_SpentCoversRoundLedger ==
    \A p \in Players(game_info) : spent[p] >= SumRoundSpent(p)

\* C5 (as claimed; refuted by the code).  In every state that is not
\* finished, the initial state included, active_player is a seated player
\* who has not folded and is not all-in.
C5_ActivePlayerCanAct ==
    ~finished =>
        /\ active_player \in Players(game_info)
        /\ ~players_folded[active_player]
        /\ U32Lt(spent[active_player], stack_player[active_player])

\* C6.  Legality closure: in every reachable state, for every proposed
\* action and either build, apply_action_no_cards returns no new state when
\* is_valid_action is false, and does not fail with the invalid-action
\* failure when is_valid_action is true.  (A payout request leaves GameState
\* as it is, so the states before a request are all the states of the hand.)
C6_LegalityClosure ==
    NotPaid =>
        \A a \in ActionInputs(GS, game_info), oc \in BOOLEAN :
            LET r == apply_action_no_cards(GS, game_info, a, oc)
            IN /\ r.res = "ok" => is_valid_action(GS, game_info, a)
               /\ is_valid_action(GS, game_info, a) => r.res # "invalid"

\* C6 witness: a call was rejected as invalid in a hand that is not over
\* and whose log has room, where Call is valid.
C6_Witness ==
    /\ result = "invalid"
    /\ ~finished
    /\ num_actions[round] < MAX_NUM_ACTIONS
    /\ is_valid_action(GS, game_info, Call)

\* The raise range of a NoLimit state collapses: the round's raise cap is
\* reached, fewer than two players are active, or the log of the round has
\* no room for one more action of every player.
RangeCollapses(s, gi) ==
    /\ gi.betting_type = "NoLimit"
    /\ ~s.finished
    /\ \/ num_raises(s) >= At(gi.max_raises, s.round)
       \/ num_active_players(s, gi) < 2
       \/ s.num_actions[s.round] + gi.num_players > MAX_NUM_ACTIONS

\* C7 (as claimed; refuted by the code).  Under NoLimit, whenever the raise
\* range collapses, no Raise(amount) is valid and apply_action_no_cards
\* accepts no Raise.
C7_NoRaiseWhenRangeCollapses ==
    (NotPaid /\ RangeCollapses(GS, game_info)) =>
        \A a \in ActionInputs(GS, game_info), oc \in BOOLEAN :
            a.type = "Raise" =>
                /\ ~is_valid_action(GS, game_info, a)
                /\ apply_action_no_cards(GS, game_info, a, oc).res # "ok"

\* C8 (as claimed; refuted by the code).  In every reachable state, under
\* Limit and NoLimit alike, max_spent is the largest spent of all players.
C8_MaxSpentIsLargestSpent == max_spent = LargestSpent

\* Side-pot resolution as the specification words it, for a player p who
\* has not folded: `levels` are the commitments, up to p's own, that end a
\* layer; a layer is contested by the players whose commitment covers it,
\* and won by the best rank class among those of them who have not folded.
RECURSIVE LayeredValue(_, _, _, _, _, _)
LayeredValue(sp, folded, rk, p, levels, below) ==
    IF levels = {} THEN 0
    ELSE LET top == CHOOSE l \in levels : \A m \in levels : l <= m
             contesting == {q \in DOMAIN sp : sp[q] >= top}
             ranked == {q \in contesting : ~folded[q]}
             winners == {q \in ranked : \A o \in ranked : rk[o] <= rk[q]}
             n == Cardinality(contesting)
             w == Cardinality(winners)
             here == IF p \in winners
                     THEN ((top - below) * (n - w)) \div w
                     ELSE 0 - (top - below)
         IN here + LayeredValue(sp, folded, rk, p, levels \ {top}, top)

\* C9 (as claimed; refuted by the code).  At a showdown every pot layer is
\* contested only among the players whose commitment covers it: a player
\* whose commitment is used up takes no part in later layers, so every
\* player who has not folded is paid what the layers they cover give them.
C9_LayersContestedByCoveringPlayers ==
    (finished /\ Paid /\ Cardinality(NotFolded) >= 2) =>
        \A p \in NotFolded :
            payout[p] =
                Value(LayeredValue(spent, players_folded, hole_rank, p,
                          {spent[q] : q \in Players(game_info)}
                              \cap (1 .. spent[p]), 0))

\* C10.  In a finished three-player hand with spent = [5, 20, 20] and no
\* folds, where player 0 holds the strictly best rank class, get_payout of
\* player 0 is +10.
C10_ShortStackWinsOnlyItsLayer ==
    (/\ finished /\ Paid
     /\ game_info.num_players = 3
     /\ spent = (0 :> 5 @@ 1 :> 20 @@ 2 :> 20)
     /\ NotFolded = {0, 1, 2}
     /\ hole_rank[0] > hole_rank[1] /\ hole_rank[0] > hole_rank[2])
        => payout[0] = Value(10)

\* C10 witness: that showdown, requested with player 1 ahead of player 2.
C10_Witness ==
    /\ finished /\ Paid
    /\ game_info.num_players = 3
    /\ spent = (0 :> 5 @@ 1 :> 20 @@ 2 :> 20)
    /\ NotFolded = {0, 1, 2}
    /\ hole_rank[0] > hole_rank[1] /\ hole_rank[1] > hole_rank[2]
    /\ payout[0] = Value(10)

\* C11 (as claimed; refuted by the code).  In every finished state with at
\* least two players who have not folded, side pots included, get_payout
\* returns a value for every player who has not folded.
C11_PayoutReturnsAtShowdown ==
    (finished /\ Paid /\ Cardinality(NotFolded) >= 2) =>
        \A p \in NotFolded : payout[p].kind = "value"

\* C12 (as claimed; refuted by the code).  In every state that is not
\* finished, get_payout returns no value, whoever is asked about, folded or
\* not.
C12_NoPayoutBeforeFinished ==
    (~finished /\ Paid) =>
        \A p \in Players(game_info) : payout[p].kind # "value"

\* C12 (amended).  In every state that is not finished, get_payout aborts
\* for every player who has not folded, and returns minus the player's spent
\* for every player who has folded.
C12_NoPayoutBeforeFinishedUnlessFolded ==
    (~finished /\ Paid) =>
        \A p \in Players(game_info) :
            IF players_folded[p]
            THEN payout[p] = Value(0 - spent[p])
            ELSE payout[p] = Panic

\* C12 witness: payouts requested in the middle of a three-player hand,
\* after one player folded and another put chips in beyond the blinds.
C12_Witness ==
    /\ ~finished /\ Paid
    /\ \E p \in Players(game_info) :
           players_folded[p] /\ payout[p] = Value(0 - spent[p])
    /\ \E p \in Players(game_info) :
           /\ ~players_folded[p] /\ payout[p] = Panic
           /\ spent[p] > At(game_info.blinds, p)

\* C13.  A finished state is absorbing: there, is_valid_action is false for
\* Fold, Call and every Raise, and apply_action_no_cards fails with the
\* finished-state failure for every action, in either build, and yields no
\* state.
C13_FinishedIsAbsorbing ==
    (NotPaid /\ finished) =>
        \A a \in ActionInputs(GS, game_info), oc \in BOOLEAN :
            /\ ~is_valid_action(GS, game_info, a)
            /\ apply_action_no_cards(GS, game_info, a, oc)
                   = [res |-> "finished", state |-> GS]

\* C13 witness: an action was proposed on a finished hand and refused.
C13_Witness ==
    /\ finished
    /\ result = "finished"
    /\ Cardinality(NotFolded) >= 2

\* C14.  No round's log ever holds more than MAX_NUM_ACTIONS actions, and
\* on a state that is not finished and whose current round's log is full,
\* every action fails with the capacity failure and yields no state.
C14_ActionCap ==
    /\ \A r \in Rounds(game_info) :
           /\ num_actions[r] <= MAX_NUM_ACTIONS
           /\ Len(action[r]) = num_actions[r]
    /\ (NotPaid /\ ~finished /\ num_actions[round] >= MAX_NUM_ACTIONS) =>
           \A a \in ActionInputs(GS, game_info), oc \in BOOLEAN :
               apply_action_no_cards(GS, game_info, a, oc)
                   = [res |-> "max_actions", state |-> GS]

\* C14 witness: an action was refused because the round's log was full.
C14_Witness ==
    /\ ~finished
    /\ num_actions[round] = MAX_NUM_ACTIONS
    /\ result = "max_actions"

\* The Fold entries of the logs: <<round, index>>.
FoldsRecorded ==
    {e \in Rounds(game_info) \X (1 .. MAX_NUM_ACTIONS) :
        e[2] <= num_actions[e[1]] /\ action[e[1]][e[2]] = Fold}

\* C15.  Fold exclusivity: in every state that is not finished, Fold is
\* valid exactly when the active player's spent differs from their stack;
\* and no log holds a Fold of a player who is all-in.
C15_FoldExclusivity ==
    /\ ~finished =>
           (is_valid_action(GS, game_info, Fold)
               <=> spent[active_player] # stack_player[active_player])
    /\ \A e \in FoldsRecorded :
           LET p == acting_player[e[1]][e[2]]
           IN players_folded[p] /\ spent[p] # stack_player[p]

\* C15 witness: the player to act is all-in, Fold is not valid, and an
\* action proposed for them was refused as invalid.
C15_Witness ==
    /\ ~finished
    /\ spent[active_player] = stack_player[active_player]
    /\ ~is_valid_action(GS, game_info, Fold)
    /\ result = "invalid"

\* C16.  In every finished state, get_payout of a player who has folded is
\* minus that player's spent, whatever the rank classes and the other
\* players' commitments.
C16_FoldedPayoutIsOwnSpend ==
    (finished /\ Paid) =>
        \A p \in Players(game_info) :
            players_folded[p] => payout[p] = Value(0 - spent[p])

\* C16 witness: three players, player 2 raises to 10, player 0 folds right
\* after and loses the small blind; the hand then ends between the other
\* two.
C16_Witness ==
    /\ finished /\ Paid
    /\ game_info.num_players = 3
    /\ num_actions[0] >= 2
    /\ action[0][1] = Raise(ScenarioRaiseTo)
    /\ action[0][2] = Fold
    /\ max_spent > spent[acting_player[0][2]]
    /\ payout[acting_player[0][2]] = Value(0 - At(game_info.blinds, acting_player[0][2]))
    /\ Cardinality(NotFolded) = 2

\* The sum of spent over all players but p.
OthersSpent(p) ==
    SumUpTo([q \in Players(game_info) |-> IF q = p THEN 0 ELSE spent[q]],
            game_info.num_players - 1)

\* C17.  In every finished state in which exactly one player has not
\* folded, get_payout of that player is the sum of the other players'
\* spent, whatever the rank classes.
C17_LastPlayerTakesOthersSpend ==
    (finished /\ Paid /\ Cardinality(NotFolded) = 1) =>
        \A p \in NotFolded : payout[p] = Value(OthersSpent(p))

\* C17 witness: two of three players folded, after the winner put in more
\* than any of them.
C17_Witness ==
    /\ finished /\ Paid
    /\ game_info.num_players = 3
    /\ \E p \in Players(game_info) :
           /\ NotFolded = {p}
           /\ payout[p] = Value(OthersSpent(p))
           /\ OthersSpent(p) > 0
           /\ spent[p] > OthersSpent(p)

\* The number of Raise actions in the log of round r.
RaisesRecorded(r) ==
    Cardinality({i \in 1 .. num_actions[r] : action[r][i].type = "Raise"})

\* C18.  In every reachable state, under Limit and NoLimit alike, the log of
\* every round r holds at most max_raises[r] Raise actions.
C18_RaisesWithinCap ==
    \A r \in Rounds(game_info) : RaisesRecorded(r) <= At(game_info.max_raises, r)

\* C18 witness: a round with all its raises made, where a further raise of
\* the legal size was proposed and refused.
C18_Witness ==
    /\ ~finished
    /\ game_info.betting_type = "Limit"
    /\ RaisesRecorded(round) = At(game_info.max_raises, round)
    /\ RaisesRecorded(round) >= 2
    /\ result = "invalid"

\* C19.  In every reachable state at least one player has not folded, and in
\* every state that is not finished at least two have not.
C19_FinishedWhenOneLeft ==
    /\ Cardinality(NotFolded) >= 1
    /\ ~finished => Cardinality(NotFolded) >= 2

\* C19 witness: a three-player hand that ended, before the last round, by
\* the second fold.
C19_Witness ==
    /\ finished
    /\ game_info.num_players = 3
    /\ Cardinality(NotFolded) = 1
    /\ round < game_info.num_rounds - 1
    /\ action[round][num_actions[round]] = Fold

\* C20.  Forced all-in showdown: whenever an accepted action closes the
\* betting round while fewer than two players are active and at least two
\* have not folded, the resulting state is finished with
\* round = num_rounds - 1; and every finished state with at least two
\* players who have not folded has round = num_rounds - 1.
C20_ForcedShowdownInLastRound ==
    [][/\ Accepted =>
           LET mid == BeforeAdvance(GS, game_info, LastAction)
           IN (/\ num_called(mid, game_info) >= num_active_players(mid, game_info)
               /\ num_active_players(mid, game_info) < 2
               /\ Cardinality(NotFolded') >= 2)
                  => (finished' /\ round' = game_info.num_rounds - 1)
       /\ (finished' /\ Cardinality(NotFolded') >= 2)
              => round' = game_info.num_rounds - 1]_vars

\* C20 witness: a hand of two rounds that ended in round 0 with a call of
\* an all-in: finished in round 1, whose log is empty.
C20_Witness ==
    /\ finished
    /\ game_info.num_rounds = 2
    /\ round = 1
    /\ num_actions[1] = 0
    /\ Cardinality(NotFolded) >= 2
    /\ \E p \in NotFolded : spent[p] = stack_player[p]
    /\ action[0][num_actions[0]] = Call

\* The player of an Accepted step.
LastActor == acting_player'[round][num_actions'[round]]

\* The larger of two integers.
Larger(a, b) == IF a >= b THEN a ELSE b

\* C21 (as claimed; refuted by the code).  An accepted NoLimit Raise(r),
\* applied with max_spent = m and min_no_limit_raise_to = t, yields
\* max_spent = r, the raiser's spent = r, every other player's spent as it
\* was and, unless the round changes in the same step,
\* min_no_limit_raise_to = max(t, 2r - m).
C21_NoLimitRaiseEffects ==
    [][(/\ Accepted
        /\ game_info.betting_type = "NoLimit"
        /\ LastAction.type = "Raise")
       => /\ max_spent' = LastAction.amount
          /\ spent'[LastActor] = LastAction.amount
          /\ \A q \in Players(game_info) \ {LastActor} : spent'[q] = spent[q]
          /\ round' = round =>
                 min_no_limit_raise_to'
                     = Larger(min_no_limit_raise_to,
                              2 * LastAction.amount - max_spent)]_vars

\* The first seat at or after seat `from`, in cyclic order, that is neither
\* folded nor all-in in state s (n seats); -1 if there is none.
FirstAbleSeat(s, from, n) ==
    LET able == {k \in 0 .. n - 1 : IsActive(s, (from + k) % n)}
    IN IF able = {} THEN -1
       ELSE (from + (CHOOSE k \in able : \A j \in able : k <= j)) % n

\* C22.  Whenever an accepted action moves the hand to a next round, the new
\* min_no_limit_raise_to is max(1, largest blind) + max_spent, whatever was
\* raised before, and the new active player is the first seat at or after
\* first_player[new round], in cyclic order, that is neither folded nor
\* all-in.
C22_RoundAdvanceResets ==
    [][(Accepted /\ ~finished' /\ round' # round)
       => /\ round' = round + 1
          /\ min_no_limit_raise_to'
                 = Larger(1, MaxOfSeq(game_info.blinds, 0)) + max_spent'
          /\ active_player'
                 = FirstAbleSeat(GS', At(game_info.first_player, round'),
                                 game_info.num_players)
          /\ active_player' \in Players(game_info)]_vars

\* C22 witness: round 1 has just begun after a raise in round 0 beyond the
\* threshold the hand started with; the round's configured first player is
\* all-in and was skipped.
C22_Witness ==
    /\ ~finished /\ round = 1 /\ num_actions[1] = 0
    /\ RaisesRecorded(0) >= 1
    /\ min_no_limit_raise_to = Larger(1, MaxOfSeq(game_info.blinds, 0)) + max_spent
    /\ min_no_limit_raise_to > 2 * MaxOfSeq(game_info.blinds, 0)
    /\ active_player # At(game_info.first_player, 1)
    /\ spent[At(game_info.first_player, 1)] = stack_player[At(game_info.first_player, 1)]

\* C23.  An accepted Call sets the caller's spent to
\* min(stack_player, max_spent) and leaves max_spent, stack_player, every
\* other player's spent and, unless the round changes in the same step,
\* min_no_limit_raise_to as they were.
C23_CallFrame ==
    [][(Accepted /\ LastAction.type = "Call")
       => /\ spent'[LastActor]
                 = (IF stack_player[LastActor] < max_spent
                    THEN stack_player[LastActor] ELSE max_spent)
          /\ \A q \in Players(game_info) \ {LastActor} : spent'[q] = spent[q]
          /\ max_spent' = max_spent
          /\ stack_player' = stack_player
          /\ round' = round => min_no_limit_raise_to' = min_no_limit_raise_to]_vars

\* C23 witness: a player has just called a raise, putting in chips beyond
\* their blind, and the hand goes on in the same round.
C23_Witness ==
    /\ ~finished
    /\ result = "ok"
    /\ num_actions[round] >= 2
    /\ action[round][num_actions[round]] = Call
    /\ action[round][num_actions[round] - 1].type = "Raise"
    /\ LET p == acting_player[round][num_actions[round]]
       IN /\ spent[p] = max_spent
          /\ spent[p] > At(game_info.blinds, p)
          /\ spent[p] < stack_player[p]

\* C24 (as claimed; refuted by the code).  Across every accepted action,
\* Fold, Call or Raise, Limit or NoLimit, no player's spent decreases, and
\* so the pot total does not.
C24_SpentMonotone ==
    [][Accepted
       => /\ \A p \in Players(game_info) : spent'[p] >= spent[p]
          /\ pot_total(GS', game_info) >= pot_total(GS, game_info)]_vars

\* C25 (as claimed; refuted by the code).  No state that is not finished is
\* stuck: apply_action_no_cards accepts Call there, in either build (the
\* capacity failure is never met after accepted actions).
C25_CallAlwaysAccepted ==
    (NotPaid /\ ~finished) =>
        \A oc \in BOOLEAN :
            apply_action_no_cards(GS, game_info, Call, oc).res = "ok"

\* C26 (as claimed; refuted by the code).  In every finished state with at
\* least two players who have not folded, every such player's spent is
\* min(stack_player, max_spent): they matched the largest bet or are
\* all-in.
C26_MatchedAtShowdown ==
    (finished /\ Cardinality(NotFolded) >= 2) =>
        \A p \in NotFolded :
            spent[p] = (IF stack_player[p] < max_spent
                        THEN stack_player[p] ELSE max_spent)

====
